---- MODULE Spec2Model ----
(***************************************************************************)
(* BiciMad: the link resolver (bicimad/urlemt.py, class UrlEMT) and the    *)
(* trip dataset (bicimad/bicimad.py, class BiciMad).                       *)
(*                                                                         *)
(* Text is a sequence of one-character strings, so that the regular        *)
(* expressions, the substring search and the string formatting of the      *)
(* source are computed character by character.                             *)
(***************************************************************************)
EXTENDS Integers, Sequences, FiniteSets, TLC

VARIABLES
    html,           \* get_links: the text handed to get_links
    attrs,          \* the href attributes the text was written from
    links,          \* get_links: whether it was called, and the set it returned
    net,            \* what requests.get answers: the index page and the archive download
    valid_urls,     \* UrlEMT._valid_urls of the resolver instance
    index_fetches,  \* index-page requests made by the resolver instance (0: no instance)
    op,             \* the last call made: its name and arguments
    ret,            \* what the last call returned or raised
    reqs,           \* the URLs the last call requested, in order, with the status each got
    steps,          \* the steps the last call ran, in order
    data,           \* BiciMad.__data: the rows of the table
    loaded,         \* the table as get_data returned it
    after_first,    \* the table as the first clean() left it
    cleans,         \* the clean() calls made: 0, 1, or 2 for two and more
    call            \* the last call made on the table since it changed, and its result

linkVars == <<html, attrs, links>>
netVars  == <<net, valid_urls, index_fetches, op, ret, reqs, steps>>
dataVars == <<data, loaded, after_first, cleans, call>>
vars     == <<html, attrs, links, net, valid_urls, index_fetches, op, ret, reqs, steps,
              data, loaded, after_first, cleans, call>>

(***************************************************************************)
(* Text helpers.                                                           *)
(***************************************************************************)
Min(S) == CHOOSE x \in S : \A y \in S : x <= y

Max(S) == CHOOSE x \in S : \A y \in S : x >= y

\* Python's `p in s` on strings.
Contains(p, s) ==
    \E i \in 1..(Len(s) - Len(p) + 1) : SubSeq(s, i, i + Len(p) - 1) = p

\* Python's s.endswith(p).
EndsWith(s, p) ==
    /\ Len(p) <= Len(s)
    /\ SubSeq(s, Len(s) - Len(p) + 1, Len(s)) = p

Digits == {"0", "1", "2", "3", "4", "5", "6", "7", "8", "9"}

Letters ==
    {"a", "b", "c", "d", "e", "f", "g", "h", "i", "j", "k", "l", "m",
     "n", "o", "p", "q", "r", "s", "t", "u", "v", "w", "x", "y", "z",
     "A", "B", "C", "D", "E", "F", "G", "H", "I", "J", "K", "L", "M",
     "N", "O", "P", "Q", "R", "S", "T", "U", "V", "W", "X", "Y", "Z"}

DigitChar(d) == <<"0", "1", "2", "3", "4", "5", "6", "7", "8", "9">>[d + 1]

\* str(n) for an integer n.
RECURSIVE NatStr(_)
NatStr(n) == IF n < 10 THEN <<DigitChar(n)>> ELSE NatStr(n \div 10) \o <<DigitChar(n % 10)>>

IntStr(n) == IF n < 0 THEN <<"-">> \o NatStr(-n) ELSE NatStr(n)

\* f"{n:02d}": at least two characters, padded with zeros on the left.
Fmt02d(n) == LET s == IntStr(n) IN IF Len(s) < 2 THEN <<"0">> \o s ELSE s

(***************************************************************************)
(* UrlEMT.get_links: re.findall(r'href=[\'"]?([^\'" >]+)', html) as a set.  *)
(***************************************************************************)
HREF == <<"h", "r", "e", "f", "=">>

Quotes == {"'", "\""}

\* The characters the group [^'" >] refuses.
GroupStop == {"'", "\"", " ", ">"}

\* The last position of the longest run of group characters starting at j
\* (j - 1 when there is none): + is greedy and nothing follows the group.
RunEnd(s, j) ==
    LET stops == {k \in j..Len(s) : s[k] \in GroupStop}
    IN  IF stops = {} THEN Len(s) ELSE Min(stops) - 1

\* The pattern with a mandatory double quote, r'href="([^\'" >]+)'.
MatchAtDoubleQuoted(s, i) ==
    LET q == i + Len(HREF)
    IN  IF /\ q <= Len(s)
           /\ SubSeq(s, i, q - 1) = HREF
           /\ s[q] = "\""
           /\ RunEnd(s, q + 1) >= q + 1
        THEN [ok |-> TRUE, from |-> q + 1, to |-> RunEnd(s, q + 1)]
        ELSE [ok |-> FALSE, from |-> 0, to |-> 0]

\* The match of the pattern at position i: the optional quote is taken when
\* it leaves a non-empty group, and given back otherwise.
MatchAt(s, i) ==
    LET q == i + Len(HREF)
    IN  IF ~(q - 1 <= Len(s) /\ SubSeq(s, i, q - 1) = HREF)
        THEN [ok |-> FALSE, from |-> 0, to |-> 0]
        ELSE IF q <= Len(s) /\ s[q] \in Quotes /\ RunEnd(s, q + 1) >= q + 1
        THEN [ok |-> TRUE, from |-> q + 1, to |-> RunEnd(s, q + 1)]
        ELSE IF RunEnd(s, q) >= q
        THEN [ok |-> TRUE, from |-> q, to |-> RunEnd(s, q)]
        ELSE [ok |-> FALSE, from |-> 0, to |-> 0]

\* findall: the leftmost match at or after pos, then on from where it ended.
RECURSIVE FindAll(_, _)
FindAll(s, pos) ==
    LET starts == {i \in pos..Len(s) : MatchAt(s, i).ok}
    IN  IF starts = {} THEN {}
        ELSE LET m == MatchAt(s, Min(starts))
             IN  {SubSeq(s, m.from, m.to)} \cup FindAll(s, m.to + 1)

get_links(s) == FindAll(s, 1)

(***************************************************************************)
(* The texts get_links is applied to: up to MaxAttrs anchors, each with an *)
(* href written with double quotes, single quotes or no quotes, and the    *)
(* texts without any href.                                                 *)
(***************************************************************************)
MaxAttrs == 2

AttrValues ==
    { <<"p", ".", "h">>,
      <<"b">>,
      <<"a", " ", "b">>,
      <<"x", "'", "y">>,
      <<"x", "\"", "y">> }

QuoteStyles == { <<"\"">>, <<"'">>, << >> }

Chars(v) == {v[i] : i \in 1..Len(v)}

\* An attribute as HTML can hold it: the value has no occurrence of its own
\* quote, and an unquoted value is non-empty with no quote, space or '>'.
WellFormedAttr(a) ==
    IF a.q = << >>
    THEN a.v # << >> /\ Chars(a.v) \cap GroupStop = {}
    ELSE a.q[1] \notin Chars(a.v)

Attrs == {a \in [q : QuoteStyles, v : AttrValues] : WellFormedAttr(a)}

RECURSIVE AttrLists(_)
AttrLists(n) ==
    IF n = 0 THEN { << >> }
    ELSE AttrLists(n - 1) \cup
         {Append(l, a) : l \in {x \in AttrLists(n - 1) : Len(x) = n - 1}, a \in Attrs}

RECURSIVE Render(_)
Render(as) ==
    IF as = << >> THEN << >>
    ELSE <<"<", "a", " ">> \o HREF \o Head(as).q \o Head(as).v \o Head(as).q
         \o <<">", "T", "<", "/", "a", ">">> \o Render(Tail(as))

PlainTexts ==
    { << >>,
      <<"n", "o", " ", "l", "i", "n", "k", "s", " ", "h", "e", "r", "e">> }

LinksIdle ==
    /\ html = << >>
    /\ attrs = << >>
    /\ links = [called |-> FALSE, value |-> {}]

NetIdle ==
    /\ net = [index_status |-> 200, text |-> << >>, status |-> 200, content |-> [zip |-> FALSE]]
    /\ valid_urls = {}
    /\ index_fetches = 0
    /\ op = [name |-> "none", month |-> 0, year |-> 0]
    /\ ret = [kind |-> "none"]
    /\ reqs = << >>
    /\ steps = << >>

DataIdle ==
    /\ data = << >>
    /\ loaded = << >>
    /\ after_first = << >>
    /\ cleans = 0
    /\ call = [name |-> "none", result |-> [kind |-> "none"]]

InitLinks ==
    /\ attrs \in AttrLists(MaxAttrs)
    /\ html \in (IF attrs = << >> THEN PlainTexts ELSE {Render(attrs)})
    /\ links = [called |-> FALSE, value |-> {}]
    /\ NetIdle
    /\ DataIdle

ExtractLinks ==
    /\ ~links.called
    /\ links' = [called |-> TRUE, value |-> get_links(html)]
    /\ UNCHANGED <<html, attrs, netVars, dataVars>>

NextLinks == ExtractLinks

SpecLinks == InitLinks /\ [][NextLinks]_vars

\* The value as the pattern reads it: up to its first quote, space or '>'.
CutAtStop(v) == SubSeq(v, 1, RunEnd(v, 1))

HrefValues == {attrs[i].v : i \in 1..Len(attrs)}

EMT ==
    <<"h", "t", "t", "p", "s", ":", "/", "/", "o", "p", "e", "n", "d", "a", "t", "a",
      ".", "e", "m", "t", "m", "a", "d", "r", "i", "d", ".", "e", "s">>

GENERAL ==
    <<"/", "D", "a", "t", "o", "s", "-", "e", "s", "t", "a", "t", "i", "c", "o", "s",
      "/", "D", "a", "t", "o", "s", "-", "g", "e", "n", "e", "r", "a", "l", "e", "s",
      "-", "(", "1", ")">>

\* calendar.month_name[1..12]
month_name ==
    << <<"J", "a", "n", "u", "a", "r", "y">>,
       <<"F", "e", "b", "r", "u", "a", "r", "y">>,
       <<"M", "a", "r", "c", "h">>,
       <<"A", "p", "r", "i", "l">>,
       <<"M", "a", "y">>,
       <<"J", "u", "n", "e">>,
       <<"J", "u", "l", "y">>,
       <<"A", "u", "g", "u", "s", "t">>,
       <<"S", "e", "p", "t", "e", "m", "b", "e", "r">>,
       <<"O", "c", "t", "o", "b", "e", "r">>,
       <<"N", "o", "v", "e", "m", "b", "e", "r">>,
       <<"D", "e", "c", "e", "m", "b", "e", "r">> >>

TRIPS == <<"t", "r", "i", "p", "s", "_">>

DOT_ASPX == <<".", "a", "s", "p", "x">>

CSV_ASPX == <<"-", "c", "s", "v", ".", "a", "s", "p", "x">>

DOT_CSV == <<".", "c", "s", "v">>

\* \w and '-', the class [\w\-]
WordOrHyphen == Letters \cup Digits \cup {"_", "-"}

\* valid_pattern.search(link) for r'trips_\d{2}_\d{2}_[\w\-]+\.aspx'
ValidPatternSearch(s) ==
    \E i \in 1..(Len(s) - 11) :
        /\ SubSeq(s, i, i + 5) = TRIPS
        /\ s[i + 6] \in Digits /\ s[i + 7] \in Digits
        /\ s[i + 8] = "_"
        /\ s[i + 9] \in Digits /\ s[i + 10] \in Digits
        /\ s[i + 11] = "_"
        /\ \E k \in (i + 12)..(Len(s) - 5) :
              /\ \A j \in (i + 12)..k : s[j] \in WordOrHyphen
              /\ SubSeq(s, k + 1, k + 5) = DOT_ASPX

IndexUrl == EMT \o GENERAL

\* requests.get(url): the answer of the network to one request.
Get(url) ==
    IF url = IndexUrl
    THEN [status_code |-> net.index_status, text |-> net.text]
    ELSE [status_code |-> net.status, content |-> net.content]

Request(url) == [url |-> url, status_code |-> Get(url).status_code]

select_valid_urls ==
    LET url == IndexUrl
        response == Get(url)
    IN  IF response.status_code # 200
        THEN [ret   |-> [kind |-> "ConnectionError", msg |-> "Could not access",
                         code |-> response.status_code],
              reqs  |-> <<Request(url)>>,
              steps |-> <<"fetch_index">>]
        ELSE LET all_links == get_links(response.text)
                 valid == {EMT \o link : link \in {l \in all_links : ValidPatternSearch(l)}}
             IN  [ret   |-> [kind |-> "ok", value |-> valid],
                  reqs  |-> <<Request(url)>>,
                  steps |-> <<"fetch_index">>]

\* The f-string of get_url: f"trips_{year:02d}_{month:02d}_{month_name}-csv.aspx"
Pattern(month, year) ==
    TRIPS \o Fmt02d(year) \o <<"_">> \o Fmt02d(month) \o <<"_">>
          \o month_name[month] \o CSV_ASPX

\* get_url with the month written without padding, f"{month}".
get_url_unpadded(urls, month, year) ==
    IF ~(1 <= month /\ month <= 12)
    THEN {[kind |-> "ValueError", msg |-> "Invalid month"]}
    ELSE IF ~(21 <= year /\ year <= 23)
    THEN {[kind |-> "ValueError", msg |-> "Invalid year"]}
    ELSE LET pattern == TRIPS \o Fmt02d(year) \o <<"_">> \o IntStr(month) \o <<"_">>
                              \o month_name[month] \o CSV_ASPX
             hits == {url \in urls : Contains(pattern, url)}
         IN  IF hits = {}
             THEN {[kind |-> "ValueError", msg |-> "No valid link found",
                    month |-> Fmt02d(month), year |-> Fmt02d(year)]}
             ELSE {[kind |-> "ok", value |-> url] : url \in hits}

\* The results get_url can give: the loop returns the first url of the set
\* that holds the pattern, and a set is walked in no defined order.
get_url(urls, month, year) ==
    IF ~(1 <= month /\ month <= 12)
    THEN {[kind |-> "ValueError", msg |-> "Invalid month"]}
    ELSE IF ~(21 <= year /\ year <= 23)
    THEN {[kind |-> "ValueError", msg |-> "Invalid year"]}
    ELSE LET pattern == Pattern(month, year)
             hits == {url \in urls : Contains(pattern, url)}
         IN  IF hits = {}
             THEN {[kind |-> "ValueError", msg |-> "No valid link found",
                    month |-> Fmt02d(month), year |-> Fmt02d(year)]}
             ELSE {[kind |-> "ok", value |-> url] : url \in hits}

\* The part of get_csv after the download: ZipFile(...), the first member
\* whose name ends in .csv, and the text stream on it.
OpenArchive(content) ==
    IF ~content.zip
    THEN [ret |-> [kind |-> "BadZipFile"], steps |-> <<"open_zip">>]
    ELSE LET csv == SelectSeq(content.names, LAMBDA f : EndsWith(f, DOT_CSV))
         IN  IF csv = << >>
             THEN [ret |-> [kind |-> "IndexError"], steps |-> <<"open_zip">>]
             ELSE [ret |-> [kind |-> "ok", value |-> [stream |-> csv[1]]],
                   steps |-> <<"open_zip">>]

\* get_csv going on to the archive whatever the status of the download.
get_csv_unchecked(urls, month, year) ==
    {IF r.kind # "ok"
     THEN [ret |-> r, reqs |-> << >>, steps |-> <<"get_url">>]
     ELSE LET a == OpenArchive(Get(r.value).content)
          IN  [ret |-> a.ret, reqs |-> <<Request(r.value)>>,
               steps |-> <<"get_url", "download">> \o a.steps]
     : r \in get_url(urls, month, year)}

\* The outcomes of get_csv on a resolver whose _valid_urls is urls.
get_csv(urls, month, year) ==
    {IF r.kind # "ok"
     THEN [ret |-> r, reqs |-> << >>, steps |-> <<"get_url">>]
     ELSE LET response == Get(r.value)
          IN  IF response.status_code # 200
              THEN [ret   |-> [kind |-> "ConnectionError",
                               msg |-> "Failed to download the file",
                               code |-> response.status_code],
                    reqs  |-> <<Request(r.value)>>,
                    steps |-> <<"get_url", "download">>]
              ELSE LET a == OpenArchive(response.content)
                   IN  [ret |-> a.ret, reqs |-> <<Request(r.value)>>,
                        steps |-> <<"get_url", "download">> \o a.steps]
     : r \in get_url(urls, month, year)}

\* pd.read_csv on the stream get_csv returned.
ReadCsv(o) ==
    IF o.ret.kind # "ok" THEN o
    ELSE [o EXCEPT !.ret = [kind |-> "ok", value |-> [frame_of |-> o.ret.value.stream]],
                   !.steps = Append(o.steps, "read_csv")]

\* BiciMad.get_data: UrlEMT() and, when it returned, get_csv on the new
\* instance, then read_csv.
get_data(month, year) ==
    LET made == select_valid_urls
    IN  IF made.ret.kind # "ok" THEN {made}
        ELSE {ReadCsv([ret |-> o.ret, reqs |-> made.reqs \o o.reqs,
                       steps |-> made.steps \o o.steps])
              : o \in get_csv(made.ret.value, month, year)}

(***************************************************************************)
(* The resolver and the loader under a network that answers the index page *)
(* and the archive download as net says.                                   *)
(***************************************************************************)
MonthsOut == 1

YearsOut == 1

\* The months asked for: those below 1 and above 12, the first and the last,
\* and the months of the dated links of the index pages.
InputMonths == ((1 - MonthsOut)..1) \cup {3, 5} \cup (12..(12 + MonthsOut))

InputYears == (21 - YearsOut)..(23 + YearsOut)

LINK_FILE1 == <<"f", "i", "l", "e", "1", ".", "c", "s", "v">>

LINK_PDF ==
    <<"s", "o", "m", "e", "t", "h", "i", "n", "g", "_", "e", "l", "s", "e", ".", "p", "d", "f">>

LINK_MARCH ==
    <<"t", "r", "i", "p", "s", "_", "2", "1", "_", "0", "3", "_", "M", "a", "r", "c", "h",
      "-", "c", "s", "v", ".", "a", "s", "p", "x">>

LINK_MARCH_QUERY == LINK_MARCH \o <<"?", "v", "=", "2">>

LINK_MAY ==
    <<"/", "g", "e", "t", "a", "t", "t", "a", "c", "h", "m", "e", "n", "t", "/",
      "t", "r", "i", "p", "s", "_", "2", "2", "_", "0", "5", "_", "M", "a", "y",
      "-", "c", "s", "v", ".", "a", "s", "p", "x">>

LINK_DECEMBER ==
    <<"t", "r", "i", "p", "s", "_", "2", "3", "_", "1", "2", "_", "D", "e", "c", "e", "m",
      "b", "e", "r", "-", "c", "s", "v", ".", "a", "s", "p", "x">>

LINK_MARCH_ONE_DIGIT ==
    <<"t", "r", "i", "p", "s", "_", "2", "1", "_", "3", "_", "M", "a", "r", "c", "h",
      "-", "c", "s", "v", ".", "a", "s", "p", "x">>

Anchor(l) == [q |-> <<"\"">>, v |-> l]

\* The index pages: the page of the tests, a page with no dated link, and
\* pages whose dated links carry a path before or a query after the name.
IndexPages ==
    { Render(<<Anchor(LINK_FILE1), Anchor(LINK_MARCH), Anchor(LINK_PDF)>>),
      Render(<<Anchor(LINK_FILE1), Anchor(LINK_MARCH_ONE_DIGIT)>>),
      Render(<<Anchor(LINK_MARCH_QUERY), Anchor(LINK_MAY)>>),
      Render(<<Anchor(LINK_MARCH), Anchor(LINK_MARCH_QUERY), Anchor(LINK_DECEMBER)>>) }

Archives ==
    { [zip |-> FALSE],
      [zip |-> TRUE, names |-> << <<"r", "e", "a", "d", "m", "e", ".", "t", "x", "t">> >>],
      [zip |-> TRUE, names |-> << <<"r", "e", "a", "d", "m", "e", ".", "t", "x", "t">>,
                                  <<"t", "r", "i", "p", "s", ".", "c", "s", "v">>,
                                  <<"o", "l", "d", ".", "c", "s", "v">> >>] }

IndexStatuses == {200, 500}

DownloadStatuses == {200, 204, 404}

InitNet ==
    /\ net \in {n \in [index_status : IndexStatuses, text : IndexPages \cup { << >> },
                       status : DownloadStatuses, content : Archives] :
                  /\ (n.index_status = 200) <=> (n.text # << >>)
                  /\ (n.status # 200) => ~n.content.zip}
    /\ valid_urls = {}
    /\ index_fetches = 0
    /\ op = [name |-> "none", month |-> 0, year |-> 0]
    /\ ret = [kind |-> "none"]
    /\ reqs = << >>
    /\ steps = << >>
    /\ LinksIdle
    /\ DataIdle

\* emt = UrlEMT(): the constructor keeps what select_valid_urls returns.
NewUrlEMT ==
    /\ index_fetches = 0
    /\ LET made == select_valid_urls
       IN  /\ op' = [name |-> "UrlEMT", month |-> 0, year |-> 0]
           /\ reqs' = made.reqs
           /\ steps' = made.steps
           /\ IF made.ret.kind = "ok"
              THEN /\ valid_urls' = made.ret.value
                   /\ index_fetches' = 1
                   /\ ret' = [kind |-> "ok"]
              ELSE /\ ret' = made.ret
                   /\ UNCHANGED <<valid_urls, index_fetches>>
    /\ UNCHANGED <<net, linkVars, dataVars>>

\* get_url written to scrape the index page again on every call.
GetUrlRefetch(month, year) ==
    /\ index_fetches >= 1
    /\ LET made == select_valid_urls
       IN  /\ made.ret.kind = "ok"
           /\ \E r \in get_url(made.ret.value, month, year) : ret' = r
           /\ valid_urls' = made.ret.value
           /\ index_fetches' = index_fetches + 1
           /\ reqs' = made.reqs
           /\ steps' = made.steps \o <<"get_url">>
    /\ op' = [name |-> "get_url", month |-> month, year |-> year]
    /\ UNCHANGED <<net, linkVars, dataVars>>

\* emt.get_url(month, year)
GetUrl(month, year) ==
    /\ index_fetches >= 1
    /\ \E r \in get_url(valid_urls, month, year) : ret' = r
    /\ op' = [name |-> "get_url", month |-> month, year |-> year]
    /\ reqs' = << >>
    /\ steps' = <<"get_url">>
    /\ UNCHANGED <<net, valid_urls, index_fetches, linkVars, dataVars>>

\* emt.get_csv(month, year)
GetCsv(month, year) ==
    /\ index_fetches >= 1
    /\ \E o \in get_csv(valid_urls, month, year) :
          /\ ret' = o.ret
          /\ reqs' = o.reqs
          /\ steps' = o.steps
    /\ op' = [name |-> "get_csv", month |-> month, year |-> year]
    /\ UNCHANGED <<net, valid_urls, index_fetches, linkVars, dataVars>>

\* BiciMad.get_data(month, year), with the resolver it makes for itself.
GetData(month, year) ==
    /\ \E o \in get_data(month, year) :
          /\ ret' = o.ret
          /\ reqs' = o.reqs
          /\ steps' = o.steps
    /\ op' = [name |-> "get_data", month |-> month, year |-> year]
    /\ UNCHANGED <<net, valid_urls, index_fetches, linkVars, dataVars>>

NextNet ==
    \/ NewUrlEMT
    \/ \E month \in InputMonths, year \in InputYears : GetUrl(month, year)
    \/ \E month \in InputMonths, year \in InputYears : GetCsv(month, year)
    \/ \E month \in InputMonths, year \in InputYears : GetData(month, year)

SpecNet == InitNet /\ [][NextNet]_vars

ValidArgs(month, year) == month \in 1..12 /\ year \in 21..23

TwoDigits(n) == <<DigitChar(n \div 10), DigitChar(n % 10)>>

\* trips_{YY}_{MM}_{MonthName}-csv.aspx
ExpectedName(month, year) ==
    TRIPS \o TwoDigits(year) \o <<"_">> \o TwoDigits(month) \o <<"_">>
          \o month_name[month] \o CSV_ASPX

\* C1: with a month outside 1..12 or a year outside 21..23, get_url on a
\* resolver and get_data both raise the ValueError 'Invalid month' /
\* 'Invalid year', whatever the network answers.
C1_InvalidArgument ==
    (op.name \in {"get_url", "get_data"} /\ ~ValidArgs(op.month, op.year)) =>
        /\ ret.kind = "ValueError"
        /\ ret.msg = (IF op.month \notin 1..12 THEN "Invalid month" ELSE "Invalid year")

\* C2 as stated: for valid arguments, when a cached link holds the dated
\* file name get_url returns a URL that ends in exactly that name, and it
\* raises 'No valid link found' otherwise.
C2_EndsInName ==
    (op.name = "get_url" /\ ValidArgs(op.month, op.year)) =>
        LET name == ExpectedName(op.month, op.year)
        IN  IF \E url \in valid_urls : Contains(name, url)
            THEN ret.kind = "ok" /\ EndsWith(ret.value, name)
            ELSE ret.kind = "ValueError" /\ ret.msg = "No valid link found"

\* C2 amended: for valid arguments, when a cached link holds the dated file
\* name get_url returns one of the cached links that hold it (and so one
\* that ends in exactly the name when every such link does); when no cached
\* link holds it, get_url raises 'No valid link found for MM/YY'.
C2_HoldsName ==
    (op.name = "get_url" /\ ValidArgs(op.month, op.year)) =>
        LET name == ExpectedName(op.month, op.year)
            hits == {url \in valid_urls : Contains(name, url)}
        IN  IF hits # {}
            THEN /\ ret.kind = "ok"
                 /\ ret.value \in hits
                 /\ (\A url \in hits : EndsWith(url, name)) => EndsWith(ret.value, name)
            ELSE ret = [kind |-> "ValueError", msg |-> "No valid link found",
                        month |-> TwoDigits(op.month), year |-> TwoDigits(op.year)]

\* get_url(3, 21) returns a cached link that goes on after the name.
C2_Witness ==
    /\ op = [name |-> "get_url", month |-> 3, year |-> 21]
    /\ ret.kind = "ok"
    /\ ret.value = EMT \o LINK_MARCH_QUERY
    /\ EMT \o LINK_MARCH \in valid_urls

Position(seq, x) == Min({i \in 1..Len(seq) : seq[i] = x})

\* C9: in get_csv and get_data a response with a non-success status ends the
\* call with a ConnectionError carrying that status: it is the last request
\* and the last step; no URL is requested twice; the download is requested
\* only after get_url returned the URL it asks for.
C9_StatusSurfaces ==
    op.name \in {"get_csv", "get_data"} =>
        /\ \A i \in 1..Len(reqs) :
              reqs[i].status_code \notin 200..299 =>
                 /\ ret.kind = "ConnectionError"
                 /\ ret.code = reqs[i].status_code
                 /\ i = Len(reqs)
                 /\ steps[Len(steps)] \in {"fetch_index", "download"}
                 /\ (steps[Len(steps)] = "fetch_index") <=> (reqs[i].url = IndexUrl)
        /\ \A i, j \in 1..Len(reqs) : reqs[i].url = reqs[j].url => i = j
        /\ \A i \in 1..Len(steps) :
              steps[i] = "download" =>
                 /\ i > 1 /\ steps[i - 1] = "get_url"
                 /\ ValidArgs(op.month, op.year)
                 /\ Contains(ExpectedName(op.month, op.year), reqs[Len(reqs)].url)
        /\ Len(reqs) = Cardinality({i \in 1..Len(steps) : steps[i] \in {"fetch_index", "download"}})

\* get_data fetched the index page, resolved the URL, and the download was
\* answered 404.
C9_Witness ==
    /\ op.name = "get_data"
    /\ Len(reqs) = 2
    /\ reqs[2].status_code = 404
    /\ ret = [kind |-> "ConnectionError", msg |-> "Failed to download the file", code |-> 404]

\* C10: once UrlEMT() has returned, no call on the instance requests the
\* index page again or changes _valid_urls: one fetch, at construction.
C10_FetchedOnce ==
    [][/\ index_fetches' <= 1
       /\ index_fetches >= 1 =>
             /\ index_fetches' = index_fetches
             /\ valid_urls' = valid_urls]_vars

\* get_csv failed on an instance that still holds its links.
C10_Witness ==
    /\ index_fetches = 1
    /\ op.name = "get_csv"
    /\ ret.kind = "ConnectionError"
    /\ valid_urls # {}

(***************************************************************************)
(* BiciMad: the table, clean() and the queries.                            *)
(* A cell is null (NaN, NaT), a number (in hundredths), the float inf, a   *)
(* text or a timestamp; a row maps the 15 columns to cells, unlock_date    *)
(* being the index of the frame and the other 14 its columns.              *)
(***************************************************************************)
COLUMNS ==
    <<"idBike", "fleet", "trip_minutes", "geolocation_unlock", "address_unlock",
      "unlock_date", "locktype", "unlocktype", "geolocation_lock", "address_lock",
      "lock_date", "station_unlock", "unlock_station_name", "station_lock",
      "lock_station_name">>

ColumnSet == {COLUMNS[i] : i \in 1..Len(COLUMNS)}

\* index_col='unlock_date': the columns of the frame are the others.
FrameColumns == ColumnSet \ {"unlock_date"}

Null == [t |-> "null", n |-> 0, s |-> << >>]

Num(n) == [t |-> "num", n |-> n, s |-> << >>]

Inf == [t |-> "inf", n |-> 0, s |-> << >>]

Text(s) == [t |-> "text", n |-> 0, s |-> s]

Date(n) == [t |-> "date", n |-> n, s |-> << >>]

\* pd.notna(x)
notna(x) == x.t # "null"

\* int(x) of a float given in hundredths: towards zero.
IntOf(n) == IF n >= 0 THEN n \div 100 ELSE -((-n) \div 100)

\* re.sub(r'[a-zA-Z]', '', s)
StripLetters(s) == SelectSeq(s, LAMBDA c : c \notin Letters)

\* re.sub(r'[a-zA-Z]', '', s, count=1)
StripFirstLetter(s) ==
    LET at == {i \in 1..Len(s) : s[i] \in Letters}
    IN  IF at = {} THEN s
        ELSE SubSeq(s, 1, Min(at) - 1) \o SubSeq(s, Min(at) + 1, Len(s))

\* The lambda of clean with only the first letter of a text taken out.
NormaliseFirstLetter(x) ==
    IF x.t = "num" THEN Text(IntStr(IntOf(x.n)))
    ELSE IF x.t = "text" THEN Text(StripFirstLetter(x.s))
    ELSE x

\* The lambda of clean on a cell that int() accepts:
\* str(int(x)) if notna(x) and isinstance(x, (int, float))
\* else re.sub(r'[a-zA-Z]', '', str(x)) if notna(x) else x
Normalise(x) ==
    IF x.t = "num" THEN Text(IntStr(IntOf(x.n)))
    ELSE IF x.t = "text" THEN Text(StripLetters(x.s))
    ELSE x

\* dropna(how='all'): a row goes when every column of the frame is null.
dropna(table) ==
    SelectSeq(table, LAMBDA row : \E c \in FrameColumns : notna(row[c]))

CLEANED == <<"fleet", "idBike", "station_lock", "station_unlock">>

\* The loop of clean from column k on: int(inf) raises OverflowError before
\* the column is assigned, and the columns done so far stay as they are.
RECURSIVE MapColumns(_, _)
MapColumns(table, k) ==
    IF k > Len(CLEANED) THEN [data |-> table, result |-> [kind |-> "ok"]]
    ELSE LET col == CLEANED[k]
         IN  IF \E i \in 1..Len(table) : table[i][col].t = "inf"
             THEN [data |-> table, result |-> [kind |-> "OverflowError"]]
             ELSE MapColumns([i \in 1..Len(table) |->
                                 [table[i] EXCEPT ![col] = Normalise(table[i][col])]],
                             k + 1)

\* BiciMad.clean
clean(table) == MapColumns(dropna(table), 1)

\* BiciMad.total_uses
total_uses(table) == Len(table)

RECURSIVE SumMinutes(_)
SumMinutes(table) ==
    IF table = << >> THEN 0
    ELSE (IF Head(table)["trip_minutes"].t = "num" THEN Head(table)["trip_minutes"].n ELSE 0)
         + SumMinutes(Tail(table))

\* BiciMad.total_time: the sum of the minutes (nulls skipped) over 60, kept
\* as a fraction of hundredths of a minute over 6000.
total_time(table) == [num |-> SumMinutes(table), den |-> 6000]

\* groupby(keys).size(): the rows with a null key are left out.
GroupSizes(table, keys) ==
    LET rows == {i \in 1..Len(table) : \A k \in 1..Len(keys) : notna(table[i][keys[k]])}
        keyOf(i) == [k \in 1..Len(keys) |-> table[i][keys[k]]]
        groups == {keyOf(i) : i \in rows}
    IN  [g \in groups |-> Cardinality({i \in rows : keyOf(i) = g})]

\* Series.max(): NaN on an empty series.
SeriesMax(counts) ==
    IF DOMAIN counts = {} THEN [nan |-> TRUE, n |-> 0]
    ELSE [nan |-> FALSE, n |-> Max({counts[g] : g \in DOMAIN counts})]

\* most_popular_stations with no selection of the groups at the maximum.
most_popular_stations_any_group(table) ==
    LET counts == GroupSizes(table, <<"station_unlock", "address_unlock">>)
    IN  {g[2].s : g \in DOMAIN counts}

\* BiciMad.most_popular_stations: counts == NaN selects nothing.
most_popular_stations(table) ==
    LET counts == GroupSizes(table, <<"station_unlock", "address_unlock">>)
        max_uses == SeriesMax(counts)
        most_popular == {g \in DOMAIN counts : ~max_uses.nan /\ counts[g] = max_uses.n}
    IN  {g[2].s : g \in most_popular}

\* usage_from_most_popular_station grouping as most_popular_stations does.
usage_by_station_and_address(table) ==
    LET station_counts == GroupSizes(table, <<"station_unlock", "address_unlock">>)
        max_usage == SeriesMax(station_counts)
    IN  IF max_usage.nan THEN [kind |-> "ValueError"]
        ELSE [kind |-> "ok", value |-> max_usage.n]

\* BiciMad.usage_from_most_popular_station: int(nan) raises ValueError.
usage_from_most_popular_station(table) ==
    LET station_counts == GroupSizes(table, <<"station_unlock">>)
        max_usage == SeriesMax(station_counts)
    IN  IF max_usage.nan THEN [kind |-> "ValueError"]
        ELSE [kind |-> "ok", value |-> max_usage.n]

\* BiciMad.resume: the series of the four statistics (year and month are the
\* constructor's arguments), or the exception of the one that raises.
resume(table) ==
    LET uses == usage_from_most_popular_station(table)
    IN  IF uses.kind # "ok" THEN uses
        ELSE [kind |-> "ok",
              value |-> [total_uses |-> total_uses(table),
                         total_time |-> total_time(table),
                         most_popular_station |-> most_popular_stations(table),
                         uses_from_most_popular |-> uses.value]]

(***************************************************************************)
(* The tables: the one the tests read (FAKE_CSV, with the addresses        *)
(* shortened to street and number), and the tables of up to MaxRows rows   *)
(* drawn from Rows.                                                        *)
(***************************************************************************)
MaxRows == 3

SERRANO_32 == <<"S", "e", "r", "r", "a", "n", "o", " ", "3", "2">>

SERRANO_33 == <<"S", "e", "r", "r", "a", "n", "o", " ", "3", "3">>

SERRANO_34 == <<"S", "e", "r", "r", "a", "n", "o", " ", "3", "4">>

STATION == <<"S", "T", "A", "T", "I", "O", "N">>

Row(date, idBike, fleet, minutes, address, station_unlock, station_lock, other) ==
    [c \in ColumnSet |->
        CASE c = "unlock_date" -> date
          [] c = "idBike" -> idBike
          [] c = "fleet" -> fleet
          [] c = "trip_minutes" -> minutes
          [] c = "address_unlock" -> address
          [] c = "station_unlock" -> station_unlock
          [] c = "station_lock" -> station_lock
          [] OTHER -> other]

AllNullRow == Row(Null, Null, Null, Null, Null, Null, Null, Null)

\* read_csv keeps a column holding '111a' as text, '111.0' and '112' included;
\* idBike, fleet, trip_minutes and station_lock are float columns.
Fixture ==
    << Row(Date(1), Num(662300), Num(100), Num(780), Text(SERRANO_34),
           Text(<<"1", "1", "1", "a">>), Num(5900), Text(STATION)),
       Row(Date(2), Num(603100), Num(100), Num(2028), Text(SERRANO_32),
           Text(<<"1", "1", "2">>), Num(21300), Text(STATION)),
       Row(Date(3), Num(645600), Num(100), Num(678), Text(SERRANO_34),
           Text(<<"1", "1", "2", "b">>), Num(21900), Text(STATION)),
       Row(Date(4), Num(87600), Num(100), Num(163), Text(SERRANO_33),
           Text(<<"1", "1", "1", ".", "0">>), Num(11100), Text(STATION)),
       AllNullRow >>

Rows ==
    { AllNullRow,
      Row(Date(1), Null, Null, Null, Null, Null, Null, Null),
      Row(Date(1), Num(662300), Num(100), Num(780), Text(SERRANO_34),
          Text(<<"1", "1", "1", "a">>), Num(5900), Text(STATION)),
      Row(Date(2), Num(-150), Text(<<"a", "b">>), Null, Text(SERRANO_32),
          Text(<<"1", "1", "1", ".", "0">>), Null, Null),
      Row(Date(2), Num(662399), Num(100), Num(163), Text(SERRANO_34),
          Num(11100), Text(<<"5", "9", "a">>), Text(STATION)),
      Row(Date(3), Null, Num(100), Num(678), Text(SERRANO_34),
          Text(<<"1", "1", "1">>), Num(5900), Null),
      Row(Date(3), Num(100), Num(100), Num(678), Null,
          Text(<<"1", "1", "2", "b">>), Num(5900), Text(STATION)),
      Row(Null, Inf, Text(<<"1", "A">>), Num(2028), Text(SERRANO_32),
          Num(11100), Num(5900), Text(STATION)) }

RECURSIVE Tables(_)
Tables(n) ==
    IF n = 0 THEN { << >> }
    ELSE Tables(n - 1) \cup
         {Append(t, r) : t \in {x \in Tables(n - 1) : Len(x) = n - 1}, r \in Rows}

InitData ==
    /\ data \in Tables(MaxRows) \cup {Fixture}
    /\ loaded = data
    /\ after_first = << >>
    /\ cleans = 0
    /\ call = [name |-> "none", result |-> [kind |-> "none"]]
    /\ LinksIdle
    /\ NetIdle

\* b.clean()
Clean ==
    /\ LET c == clean(data)
       IN  /\ data' = c.data
           /\ after_first' = (IF cleans = 0 THEN c.data ELSE after_first)
           /\ call' = [name |-> "clean", result |-> c.result]
    /\ cleans' = (IF cleans < 2 THEN cleans + 1 ELSE cleans)
    /\ UNCHANGED <<loaded, linkVars, netVars>>

\* b.total_uses()
TotalUses ==
    /\ call' = [name |-> "total_uses",
                result |-> [kind |-> "ok", value |-> total_uses(data)]]
    /\ UNCHANGED <<data, loaded, after_first, cleans, linkVars, netVars>>

\* b.total_time()
TotalTime ==
    /\ call' = [name |-> "total_time",
                result |-> [kind |-> "ok", value |-> total_time(data)]]
    /\ UNCHANGED <<data, loaded, after_first, cleans, linkVars, netVars>>

\* b.most_popular_stations()
MostPopularStations ==
    /\ call' = [name |-> "most_popular_stations",
                result |-> [kind |-> "ok", value |-> most_popular_stations(data)]]
    /\ UNCHANGED <<data, loaded, after_first, cleans, linkVars, netVars>>

\* b.usage_from_most_popular_station()
UsageFromMostPopularStation ==
    /\ call' = [name |-> "usage_from_most_popular_station",
                result |-> usage_from_most_popular_station(data)]
    /\ UNCHANGED <<data, loaded, after_first, cleans, linkVars, netVars>>

\* b.resume()
Resume ==
    /\ call' = [name |-> "resume", result |-> resume(data)]
    /\ UNCHANGED <<data, loaded, after_first, cleans, linkVars, netVars>>

NextData ==
    \/ Clean
    \/ TotalUses
    \/ TotalTime
    \/ UsageFromMostPopularStation
    \/ Resume
    \/ MostPopularStations

SpecData == InitData /\ [][NextData]_vars

Spec == SpecData

AllFieldsNull(row) == \A c \in ColumnSet : row[c] = Null

Column(table, col) == [i \in 1..Len(table) |-> table[i][col]]

\* C3: the table after a second clean() is the table after the first, row for
\* row and cell for cell.
C3_CleanIdempotent ==
    cleans = 2 => data = after_first

\* Two clean() calls on a table with an all-null row, numbers and texts with
\* letters in the cleaned columns, all of which the first clean() changed.
C3_Witness ==
    /\ cleans = 2
    /\ call = [name |-> "clean", result |-> [kind |-> "ok"]]
    /\ Len(data) = 2
    /\ Len(loaded) = 3
    /\ \E i \in 1..Len(loaded) : AllFieldsNull(loaded[i])
    /\ \E i \in 1..Len(loaded) : loaded[i]["fleet"] = Text(<<"a", "b">>)
    /\ \E i \in 1..Len(loaded) : loaded[i]["station_unlock"] = Num(11100)

\* The cells clean() leaves alone, the index included.
Untouched(row) == [c \in ColumnSet \ {"fleet", "idBike", "station_lock", "station_unlock"} |-> row[c]]

\* C4: clean() removes exactly the rows whose 15 fields, unlock_date included,
\* are all null: none is left, the other rows stay in their order, total_uses
\* is their number, and the fixture goes from 5 rows to 4.
C4_RemovesExactlyAllNull ==
    cleans >= 1 =>
        LET kept == SelectSeq(loaded, LAMBDA row : ~AllFieldsNull(row))
        IN  /\ \A i \in 1..Len(data) : ~AllFieldsNull(data[i])
            /\ total_uses(data) = Len(kept)
            /\ [i \in 1..Len(data) |-> Untouched(data[i])]
                  = [i \in 1..Len(kept) |-> Untouched(kept[i])]
            /\ loaded = Fixture => (total_uses(loaded) = 5 /\ total_uses(data) = 4)

StationUnlock(i) == data[i]["station_unlock"]

\* C5 as stated: on the fixture after clean(), the rows read as '111a' and
\* '111.0' both hold '111', and that group of two is what makes
\* usage_from_most_popular_station() return 2.
C5_SharedGroup111 ==
    (loaded = Fixture /\ cleans >= 1) =>
        /\ StationUnlock(1) = Text(<<"1", "1", "1">>)
        /\ StationUnlock(4) = Text(<<"1", "1", "1">>)
        /\ usage_from_most_popular_station(data) = [kind |-> "ok", value |-> 2]

\* C5 amended: on the fixture after clean(), the row read as '111a' holds
\* '111' and the row read as '111.0' still holds '111.0' (only letters leave
\* a text), each alone in its group; the rows read as '112' and '112b' both
\* hold '112', and that group of two is what makes
\* usage_from_most_popular_station() return 2.
C5_SharedGroup112 ==
    (loaded = Fixture /\ cleans >= 1) =>
        /\ StationUnlock(1) = Text(<<"1", "1", "1">>)
        /\ StationUnlock(4) = Text(<<"1", "1", "1", ".", "0">>)
        /\ StationUnlock(2) = Text(<<"1", "1", "2">>)
        /\ StationUnlock(3) = Text(<<"1", "1", "2">>)
        /\ \A i \in 1..Len(data) :
              Cardinality({j \in 1..Len(data) : StationUnlock(j) = StationUnlock(i)})
                 = (IF i \in {2, 3} THEN 2 ELSE 1)
        /\ call.name = "usage_from_most_popular_station"
              => call.result = [kind |-> "ok", value |-> 2]

\* usage_from_most_popular_station() was asked on the cleaned fixture.
C5_Witness ==
    /\ loaded = Fixture
    /\ cleans = 1
    /\ Len(data) = 4
    /\ call = [name |-> "usage_from_most_popular_station",
               result |-> [kind |-> "ok", value |-> 2]]

\* The rows of the group (station, address), for non-null station and address.
RowsOf(station, address) ==
    {i \in 1..Len(data) : /\ data[i]["station_unlock"] = station
                          /\ data[i]["address_unlock"] = address}

GroupedRows ==
    {i \in 1..Len(data) : /\ data[i]["station_unlock"] # Null
                          /\ data[i]["address_unlock"] # Null}

\* Row i is in a group that no group outnumbers.
InTopGroup(i) ==
    \A j \in GroupedRows :
        Cardinality(RowsOf(data[j]["station_unlock"], data[j]["address_unlock"]))
           <= Cardinality(RowsOf(data[i]["station_unlock"], data[i]["address_unlock"]))

\* C6: most_popular_stations() returns exactly the addresses of the groups
\* (station_unlock, address_unlock) with the maximum row count: every tied
\* top group's address, and no address of a smaller group only; on the
\* fixture before clean() these are the three addresses.
C6_TopGroupAddresses ==
    call.name = "most_popular_stations" =>
        /\ call.result.kind = "ok"
        /\ call.result.value = {data[i]["address_unlock"].s : i \in {j \in GroupedRows : InTopGroup(j)}}
        /\ data = Fixture => call.result.value = {SERRANO_32, SERRANO_33, SERRANO_34}

\* A group of two rows and a group of one at another address: only the
\* address of the first is returned.
C6_Witness ==
    /\ call.name = "most_popular_stations"
    /\ Len(data) = 3
    /\ GroupedRows = {1, 2, 3}
    /\ \E i \in GroupedRows : ~InTopGroup(i) /\ data[i]["address_unlock"].s \notin call.result.value
    /\ Cardinality(call.result.value) = 1

Queries ==
    {"total_uses", "total_time", "most_popular_stations",
     "usage_from_most_popular_station", "resume"}

\* C7: before and after clean(), on any table, every query returns a value:
\* most_popular_stations a set of one or more addresses and
\* usage_from_most_popular_station an integer, alone and in resume().
C7_QueriesNeverFail ==
    call.name \in Queries =>
        /\ call.result.kind = "ok"
        /\ call.name = "most_popular_stations" => call.result.value # {}
        /\ call.name = "usage_from_most_popular_station" => call.result.value \in Nat
        /\ call.name = "resume" =>
              /\ call.result.value.most_popular_station # {}
              /\ call.result.value.uses_from_most_popular \in Nat

====
